---- MODULE Spec2Model ----
(***************************************************************************)
(* The breathing-session engine of src/src/WimHofBreathing.jsx as a state  *)
(* machine: the React state cells of the component, the two timer refs,    *)
(* the browser's pending timers (tracked and untracked), the pending       *)
(* AudioEngine.unlock() continuations of startSession, and the persisted   *)
(* blob.  One action is one event-loop task: a click handler, a timer      *)
(* callback or a promise continuation, together with the render and the    *)
(* effect cleanups/bodies it causes.                                       *)
(*                                                                         *)
(* Time is the remaining delay of every pending timer, in milliseconds.    *)
(* Firing the timer that expires first lets that delay pass for all        *)
(* timers.  Dates and epoch timestamps are not modelled: sessionStart is   *)
(* "null" or "set", and a SessionRecord keeps rounds, breathsPerRound and  *)
(* retentions.  Presentation-only cells (breathingAnim, breathVolume,      *)
(* showVolumeControl, the wake lock) are left out.                         *)
(***************************************************************************)
EXTENDS Integers, Sequences, FiniteSets, Bags, TLC

VARIABLES
    loaded,            \* useState(false), line 305
    appData,           \* appData.sessions, line 304
    store,             \* localStorage[STORAGE_KEY]: whether a blob is stored, and its sessions
    history,           \* the sessions the load effect found in the store
    rounds,            \* line 306
    breathsPerRound,   \* line 307
    phase,             \* line 308 (phaseRef.current follows it at every render)
    currentRound,      \* line 309
    breathCount,       \* line 310
    isInhale,          \* line 311
    retentionTime,     \* line 312
    recoveryCountdown, \* line 313
    roundRetentions,   \* line 314
    sessionStart,      \* line 315
    showQuitConfirm,   \* line 317
    timers,            \* the browser's pending timers (a bag), each with the ref
                       \* that holds its id: intervalRef, timeoutRef (lines 321-322) or none
    closures,          \* per startBreathingPhase call that still owns a timer:
                       \* its `count` (line 402) and its breathsPerRound
    pendingStarts,     \* unlock() promises of startSession not yet continued (a bag
                       \* of the breathsPerRound each continuation closes over)
    cues,              \* the AudioEngine cues triggered by the latest step
    last,              \* the latest step: which handler ran, from which phase
    streak             \* calcStreak(appData.sessions), line 531; computed in the
                       \* specification of the statistics only (elsewhere the
                       \* session records carry no date)

vars == <<loaded, appData, store, history, rounds, breathsPerRound, phase, currentRound,
          breathCount, isInhale, retentionTime, recoveryCountdown, roundRetentions,
          sessionStart, showQuitConfirm, timers, closures, pendingStarts, cues, last,
          streak>>

-----------------------------------------------------------------------------
(* Program constants *)

MIN_ROUNDS == 1
MAX_ROUNDS == 10
MIN_BREATHS == 20
MAX_BREATHS == 60
BREATH_STEP == 5
INIT_ROUNDS == 3
INIT_BREATHS == 40
BREATH_CYCLE_MS == 4000
EXHALE_CUE_DELAY_MS == 2000
LEAD_IN_MS == 300
RETENTION_PAUSE_MS == 800
SECOND_MS == 1000
ROUND_DONE_PAUSE_MS == 300
RECOVERY_SECONDS == 15
BEEP_FROM == 4
TICK_EVERY == 60

PHASE ==
    [SETUP |-> "setup", BREATHING |-> "breathing", RETENTION |-> "retention",
     RECOVERY |-> "recovery", ROUND_DONE |-> "round_done", COMPLETE |-> "complete"]

Phases ==
    {PHASE.SETUP, PHASE.BREATHING, PHASE.RETENTION, PHASE.RECOVERY,
     PHASE.ROUND_DONE, PHASE.COMPLETE}

ACTIVE_PHASES == {PHASE.BREATHING, PHASE.RETENTION, PHASE.RECOVERY}

isActiveSession == phase \in ACTIVE_PHASES

-----------------------------------------------------------------------------
(* Bounds of the model *)

\* the user ends a retention after at most this many seconds
MaxRetention == 1
\* seconds of a retention in the specification of long holds
MaxLongRetention == 121
\* sessions started after MaxSessions sessions were completed are not followed
MaxSessions == 1
\* "Begin Session" clicks whose unlock() has not resolved yet
MaxPendingStarts == 2
\* timers pending at once
MaxTimers == 4
\* startBreathingPhase closures that still own a pending timer
MaxClosures == 2
\* the user's waits between a timer callback and a click are multiples of
\* WaitQuanta * Quantum milliseconds
WaitQuanta == 5
\* the part of the configuration range the steppers are driven through
MinRoundsExplored == 1
MaxRoundsExplored == 3
MinBreathsExplored == 20
MaxBreathsExplored == 45
\* the stored sessions of the streak: how many, and how many days back
MaxDatedSessions == 4
MaxDaysBack == 4

-----------------------------------------------------------------------------
(* Timers *)

\* localStorage holds nothing under STORAGE_KEY
NoData == [present |-> FALSE, sessions |-> <<>>]

\* JSON.stringify({sessions}) stored under STORAGE_KEY
Stored(sessions) == [present |-> TRUE, sessions |-> sessions]

\* a record left by an earlier run of the program
OldRecord == [rounds |-> 2, breathsPerRound |-> 40, retentions |-> <<1, 0>>]
NULL == "null"

IntervalKinds == {"cycle", "retTick", "recTick"}

Period(kind) ==
    IF kind = "cycle" THEN BREATH_CYCLE_MS ELSE SECOND_MS

RECURSIVE Gcd(_, _)
Gcd(a, b) == IF b = 0 THEN a ELSE Gcd(b, a % b)

\* every delay of the program is a multiple of Quantum
Quantum ==
    Gcd(Gcd(Gcd(BREATH_CYCLE_MS, EXHALE_CUE_DELAY_MS), Gcd(LEAD_IN_MS, RETENTION_PAUSE_MS)),
        Gcd(SECOND_MS, ROUND_DONE_PAUSE_MS))

\* A pending timer: what it runs (kind), the delay left (rem), the
\* startBreathingPhase closure it belongs to (cl, 0 for none), whether a
\* resetToSetup has run since it was registered (q), and the ref that holds its
\* id (ref).
Timer(kind, rem, cl, q, ref) ==
    [kind |-> kind, rem |-> rem, cl |-> cl, q |-> q, ref |-> ref]

Pending(tm) == BagToSet(tm)

Min(S) == CHOOSE x \in S : \A y \in S : x <= y

MinRem(tm) == Min({t.rem : t \in Pending(tm)})

\* the bag of f[t] for the timers t of tm
MapTimers(tm, f) ==
    LET S == Pending(tm)
    IN  [x \in {f[t] : t \in S} |->
            BagCardinality([t \in {u \in S : f[u] = x} |-> tm[t]])]

\* the timer state a handler works on
TimerState == [tm |-> timers, cls |-> closures]

\* a timer no ref points to: clearTimers cannot cancel it
Untracked(T) == {t \in Pending(T.tm) : t.ref = "none"}

LiveClosures(T) == {t.cl : t \in Pending(T.tm)} \ {0}

\* A closure no pending timer refers to can no longer be observed: it is dropped
\* and the others keep their order of creation.
Rank(T, c) == Cardinality({x \in LiveClosures(T) : x <= c})

Gc(T) ==
    LET live == LiveClosures(T)
        Renumber == [t \in Pending(T.tm) |->
                        IF t.cl = 0 THEN t ELSE [t EXCEPT !.cl = Rank(T, t.cl)]]
    IN  [tm  |-> MapTimers(T.tm, Renumber),
         cls |-> [k \in 1..Cardinality(live) |->
                     T.cls[CHOOSE c \in live : Rank(T, c) = k]]]

\* clearTimers without the clearInterval of line 390
clearTimersTimeoutOnly(T) ==
    LET kept == {t \in Pending(T.tm) : t.ref # "timeoutRef"}
    IN  [T EXCEPT !.tm = [t \in kept |-> T.tm[t]]]

\* clearTimers, lines 389-394
clearTimers(T) ==
    LET kept == {t \in Pending(T.tm) : t.ref = "none"}
    IN  [T EXCEPT !.tm = [t \in kept |-> T.tm[t]]]

\* a ref is overwritten: the timer it held is no longer tracked
Drop(T, ref) ==
    LET Untrack == [t \in Pending(T.tm) |->
                       IF t.ref = ref THEN [t EXCEPT !.ref = "none"] ELSE t]
    IN  [T EXCEPT !.tm = MapTimers(T.tm, Untrack)]

Register(T, t) == [T EXCEPT !.tm = T.tm (+) SetToBag({t})]

\* setTimeout(...) whose id is dropped
SetTimeoutUntracked(T, kind, ms, cl) ==
    Register(T, Timer(kind, ms, cl, FALSE, "none"))

\* timeoutRef.current = setTimeout(...)
SetTimeoutRef(T, kind, ms, cl) ==
    Register(Drop(T, "timeoutRef"), Timer(kind, ms, cl, FALSE, "timeoutRef"))

\* intervalRef.current = setInterval(...)
SetIntervalRef(T, kind, cl) ==
    Register(Drop(T, "intervalRef"), Timer(kind, Period(kind), cl, FALSE, "intervalRef"))

Commit(T) ==
    /\ timers' = Gc(T).tm
    /\ closures' = Gc(T).cls

-----------------------------------------------------------------------------
(* Effects of a render in which `phase` went from old to new *)

\* the cleanups of the retention and recovery effects (lines 447-449, 471-473)
EffectCleanups(old, new, T) ==
    IF old # new /\ old \in {PHASE.RETENTION, PHASE.RECOVERY} THEN clearTimers(T) ELSE T

\* the body of the retention effect (lines 438-446)
RetentionEffect(old, new, T) ==
    IF old # new /\ new = PHASE.RETENTION
    THEN SetIntervalRef(clearTimers(T), "retTick", 0)
    ELSE T

\* the timer part of the body of the recovery effect (lines 454-470)
RecoveryEffect(old, new, T) ==
    IF old # new /\ new = PHASE.RECOVERY
    THEN SetIntervalRef(clearTimers(T), "recTick", 0)
    ELSE T

RunEffects(old, new, T) ==
    RecoveryEffect(old, new, RetentionEffect(old, new, EffectCleanups(old, new, T)))

-----------------------------------------------------------------------------
(* startBreathingPhase, lines 397-434: the timers it leaves behind *)

Room(T, n) == BagCardinality(T.tm) + n <= MaxTimers

startBreathingPhaseTimers(T, bpr) ==
    LET T1 == clearTimers(T)
        c  == Len(T1.cls) + 1
        T2 == [T1 EXCEPT !.cls = Append(T1.cls, [count |-> 0, bpr |-> bpr])]
        T3 == SetTimeoutUntracked(T2, "lead", LEAD_IN_MS, c)
    IN  SetIntervalRef(T3, "cycle", c)

CanStartBreathing(T) ==
    /\ Room(clearTimers(T), 2)
    /\ Len(Gc(clearTimers(T)).cls) < MaxClosures

-----------------------------------------------------------------------------
\* the component's state after construction, lines 304-325
InitState ==
    /\ loaded = FALSE
    /\ appData = <<>>
    /\ history = <<>>
    /\ rounds = INIT_ROUNDS
    /\ breathsPerRound = INIT_BREATHS
    /\ phase = PHASE.SETUP
    /\ currentRound = 0
    /\ breathCount = 0
    /\ isInhale = TRUE
    /\ retentionTime = 0
    /\ recoveryCountdown = RECOVERY_SECONDS
    /\ roundRetentions = <<>>
    /\ sessionStart = NULL
    /\ showQuitConfirm = FALSE
    /\ timers = EmptyBag
    /\ closures = <<>>
    /\ pendingStarts = EmptyBag
    /\ cues = <<>>
    /\ last = [op |-> "init", kind |-> "none", q |-> FALSE, from |-> PHASE.SETUP,
               played |-> "none"]
    /\ streak = 0

Init ==
    /\ store \in {NoData, Stored(<<OldRecord>>)}
    /\ InitState

Step(op) == [op |-> op, kind |-> "none", q |-> FALSE, from |-> phase, played |-> "none"]

\* the load effect, lines 328-333
Load ==
    /\ ~loaded
    /\ loaded' = TRUE
    /\ appData' = IF store.present THEN store.sessions ELSE appData
    /\ cues' = <<>>
    /\ last' = Step("load")
    /\ history' = appData'
    /\ UNCHANGED <<store, rounds, breathsPerRound, phase, currentRound, breathCount,
                   isInhale, retentionTime, recoveryCountdown, roundRetentions,
                   sessionStart, showQuitConfirm, timers,
                   closures, pendingStarts>>
    /\ UNCHANGED streak

-----------------------------------------------------------------------------
(* The streak, lines 262-279 *)

\* A calendar day is the number of its UTC day: todayStr() and the records'
\* dates are the first ten characters of toISOString(), which sort() orders as
\* the days they name, and new Date(date) is that day's UTC midnight, so that
\* (prev - curr) / 86400000 is the difference of the two day numbers.
Today == 0

\* the days of the stored sessions that are explored
Days == (Today - MaxDaysBack)..(Today + 1)

\* the sessions sequences of up to MaxDatedSessions dated records, in any
\* order and with repeated days
DatedSessions ==
    UNION {[1..n -> [date : Days]] : n \in 0..MaxDatedSessions}

\* [...new Set(sessions.map((s) => s.date))], line 266
DateSet(sessions) == {sessions[i].date : i \in 1..Len(sessions)}

\* .sort().reverse(), line 266
RECURSIVE SortReverse(_)
SortReverse(S) ==
    IF S = {} THEN <<>>
    ELSE LET m == CHOOSE d \in S : \A e \in S : e <= d
         IN  <<m>> \o SortReverse(S \ {m})

\* the loop of lines 271-277, from index i with the streak counted so far
\* (dates[i - 1] of the code is dates[i] here)
RECURSIVE CountBack(_, _, _)
CountBack(dates, i, n) ==
    IF i >= Len(dates) THEN n
    ELSE IF dates[i] - dates[i + 1] = 1 THEN CountBack(dates, i + 1, n + 1)
    ELSE n

\* calcStreak without the allowance for yesterday of line 269
calcStreakTodayOnly(sessions) ==
    IF Len(sessions) = 0 THEN 0
    ELSE LET dates == SortReverse(DateSet(sessions))
         IN  IF dates[1] # Today THEN 0
             ELSE CountBack(dates, 1, 1)

\* calcStreak, lines 264-279
calcStreak(sessions) ==
    IF Len(sessions) = 0 THEN 0
    ELSE LET dates == SortReverse(DateSet(sessions))
             yesterday == Today - 1
         IN  IF dates[1] # Today /\ dates[1] # yesterday THEN 0
             ELSE CountBack(dates, 1, 1)

\* const streak = calcStreak(appData.sessions) of a render, line 531
RenderStreak ==
    /\ loaded
    /\ streak' = calcStreak(appData)
    /\ last' = Step("render")
    /\ UNCHANGED <<loaded, appData, store, history, rounds, breathsPerRound, phase,
                   currentRound, breathCount, isInhale, retentionTime,
                   recoveryCountdown, roundRetentions, sessionStart,
                   showQuitConfirm, timers, closures, pendingStarts, cues>>

-----------------------------------------------------------------------------
(* The setup screen, lines 546-638 *)

\* the "Rounds" stepper without the Math.min of line 583
SetRoundsNoMax(d) ==
    /\ loaded
    /\ phase = PHASE.SETUP
    /\ rounds' = IF d < 0
                 THEN (IF rounds - 1 > MIN_ROUNDS THEN rounds - 1 ELSE MIN_ROUNDS)
                 ELSE rounds + 1
    /\ cues' = <<>>
    /\ last' = Step("setRounds")
    /\ UNCHANGED <<loaded, appData, store, history, breathsPerRound, phase, currentRound,
                   breathCount, isInhale, retentionTime, recoveryCountdown,
                   roundRetentions, sessionStart, showQuitConfirm, timers, closures, pendingStarts>>
    /\ UNCHANGED streak

\* the "Rounds" stepper, lines 574-586: d = -1 is the minus button, d = 1 the plus button
SetRounds(d) ==
    /\ loaded
    /\ phase = PHASE.SETUP
    /\ rounds' = IF d < 0
                 THEN (IF rounds - 1 > MIN_ROUNDS THEN rounds - 1 ELSE MIN_ROUNDS)
                 ELSE (IF rounds + 1 < MAX_ROUNDS THEN rounds + 1 ELSE MAX_ROUNDS)
    /\ cues' = <<>>
    /\ last' = Step("setRounds")
    /\ UNCHANGED <<loaded, appData, store, history, breathsPerRound, phase, currentRound,
                   breathCount, isInhale, retentionTime, recoveryCountdown,
                   roundRetentions, sessionStart, showQuitConfirm, timers, closures, pendingStarts>>
    /\ UNCHANGED streak

\* the "Breaths per round" stepper, lines 592-604
SetBreathsPerRound(d) ==
    /\ loaded
    /\ phase = PHASE.SETUP
    /\ breathsPerRound' =
           IF d < 0
           THEN (IF breathsPerRound - BREATH_STEP > MIN_BREATHS
                 THEN breathsPerRound - BREATH_STEP ELSE MIN_BREATHS)
           ELSE (IF breathsPerRound + BREATH_STEP < MAX_BREATHS
                 THEN breathsPerRound + BREATH_STEP ELSE MAX_BREATHS)
    /\ cues' = <<>>
    /\ last' = Step("setBreathsPerRound")
    /\ UNCHANGED <<loaded, appData, store, history, rounds, phase, currentRound, breathCount,
                   isInhale, retentionTime, recoveryCountdown, roundRetentions,
                   sessionStart, showQuitConfirm, timers,
                   closures, pendingStarts>>
    /\ UNCHANGED streak

\* startSession up to the await, lines 477-478: the click calls AudioEngine.unlock()
\* and registers the continuation, which closes over the startBreathingPhase of this
\* render and so over this render's breathsPerRound
startSession ==
    /\ loaded
    /\ phase = PHASE.SETUP
    /\ Len(appData) - Len(history) < MaxSessions
    /\ BagCardinality(pendingStarts) < MaxPendingStarts
    /\ pendingStarts' = pendingStarts (+) SetToBag({breathsPerRound})
    /\ cues' = <<>>
    /\ last' = Step("startSession")
    /\ UNCHANGED <<loaded, appData, store, history, rounds, breathsPerRound, phase, currentRound,
                   breathCount, isInhale, retentionTime, recoveryCountdown,
                   roundRetentions, sessionStart, showQuitConfirm, timers, closures>>
    /\ UNCHANGED streak

\* the continuation of startSession, lines 479-482, run when unlock() resolves
\* (lines 159-174: after the resume, the sample load and the priming, or at once
\* when the context is missing or a step throws); bpr is the breathsPerRound of
\* the render whose startBreathingPhase it closes over
StartContinuation(bpr) ==
    /\ BagIn(bpr, pendingStarts)
    /\ Len(appData) - Len(history) < MaxSessions
    /\ CanStartBreathing(TimerState)
    /\ pendingStarts' = pendingStarts (-) SetToBag({bpr})
    /\ currentRound' = 1
    /\ roundRetentions' = <<>>
    /\ sessionStart' = "set"
    /\ phase' = PHASE.BREATHING
    /\ breathCount' = 0
    /\ isInhale' = TRUE
    /\ Commit(RunEffects(phase, PHASE.BREATHING,
                         startBreathingPhaseTimers(TimerState, bpr)))
    /\ cues' = <<>>
    /\ last' = Step("startContinuation")
    /\ UNCHANGED <<loaded, appData, store, history, rounds, breathsPerRound, retentionTime,
                   recoveryCountdown, showQuitConfirm>>
    /\ UNCHANGED streak

-----------------------------------------------------------------------------
(* Timer callbacks *)

\* timer t is the next to expire
Due(t, kinds) ==
    /\ BagIn(t, timers)
    /\ t.kind \in kinds
    /\ t.rem = MinRem(timers)

\* the timer state when the callback of timer t starts: its delay has passed for
\* every timer, an interval is re-armed, a timeout is gone (a ref to a timeout that
\* has fired is as good as null: clearTimeout of it does nothing)
Elapsed(t) ==
    LET rest   == timers (-) SetToBag({t})
        Age    == [u \in Pending(rest) |-> [u EXCEPT !.rem = @ - t.rem]]
        others == MapTimers(rest, Age)
    IN  [tm  |-> IF t.kind \in IntervalKinds
                 THEN others (+) SetToBag({[t EXCEPT !.rem = Period(t.kind)]})
                 ELSE others,
         cls |-> closures]

Fired(t) == [op |-> "fire", kind |-> t.kind, q |-> t.q, from |-> phase, played |-> "none"]

\* playSample, lines 147-157: whether a playback was started, given the
\* platform test of lines 116-122 and what playMediaSample (lines 96-114) and
\* playWebAudioSample (lines 124-145) return
playSample(preferMedia, mediaStarted, webAudioStarted) ==
    IF preferMedia
    THEN (IF mediaStarted THEN TRUE ELSE webAudioStarted)
    ELSE (IF webAudioStarted THEN TRUE ELSE mediaStarted)

\* the results playSample can give
SampleResults ==
    {playSample(p, m, w) : p \in BOOLEAN, m \in BOOLEAN, w \in BOOLEAN}

\* a breathCycle that goes on only when the playback was started
GoesOnIfPlayed(played) == played

\* breathCycle calls AudioEngine.inhale() and AudioEngine.exhale() as
\* statements (lines 410, 416): the result of playSample is discarded and the
\* callback goes on whatever it was
GoesOn(played) == TRUE

\* the outcome of the playback of a step, as recorded in `last`
Outcome(played) == IF cues' = <<>> THEN "none" ELSE IF played THEN "started" ELSE "failed"

\* breathCycle, lines 406-411 and the registration of line 412, run by the lead-in
\* timeout (line 432) and by the interval (line 433)
BreathCycleGiven(t, played) ==
    /\ Due(t, {"lead", "cycle"})
    /\ IF phase # PHASE.BREATHING
       THEN /\ Commit(Elapsed(t))
            /\ cues' = <<>>
            /\ UNCHANGED isInhale
       ELSE /\ Room(Elapsed(t), 1)
            /\ isInhale' = TRUE
            /\ cues' = <<"inhale">>
            /\ IF GoesOn(played)
               THEN Commit(SetTimeoutRef(Elapsed(t), "exhale", EXHALE_CUE_DELAY_MS, t.cl))
               ELSE Commit(Elapsed(t))
    /\ UNCHANGED <<loaded, appData, store, history, rounds, breathsPerRound, phase, currentRound,
                   breathCount, retentionTime, recoveryCountdown, roundRetentions,
                   sessionStart, showQuitConfirm, pendingStarts>>
    /\ UNCHANGED streak

BreathCycle(t) ==
    \E played \in SampleResults :
        /\ BreathCycleGiven(t, played)
        /\ last' = Fired(t)

\* breathCycle, with the outcome of the playback on record
BreathCyclePlayed(t) ==
    \E played \in SampleResults :
        /\ BreathCycleGiven(t, played)
        /\ last' = [Fired(t) EXCEPT !.played = Outcome(played)]

\* the exhale timeout, lines 412-429
ExhaleGiven(t, played) ==
    /\ Due(t, {"exhale"})
    /\ IF phase # PHASE.BREATHING
       THEN /\ Commit(Elapsed(t))
            /\ cues' = <<>>
            /\ UNCHANGED <<isInhale, breathCount>>
       ELSE LET count == closures[t.cl].count + 1
                T1    == [Elapsed(t) EXCEPT !.cls[t.cl].count = count]
            IN  /\ isInhale' = FALSE
                /\ cues' = <<"exhale">>
                /\ IF GoesOn(played)
                   THEN /\ breathCount' = count
                        /\ IF count >= closures[t.cl].bpr
                           THEN Commit(SetTimeoutUntracked(clearTimers(T1), "toRetention",
                                                           RETENTION_PAUSE_MS, 0))
                           ELSE Commit(T1)
                   ELSE /\ UNCHANGED breathCount
                        /\ Commit(Elapsed(t))
    /\ UNCHANGED <<loaded, appData, store, history, rounds, breathsPerRound, phase, currentRound,
                   retentionTime, recoveryCountdown, roundRetentions, sessionStart,
                   showQuitConfirm, pendingStarts>>
    /\ UNCHANGED streak

Exhale(t) ==
    \E played \in SampleResults :
        /\ ExhaleGiven(t, played)
        /\ last' = Fired(t)

\* the exhale timeout, with the outcome of the playback on record
ExhalePlayed(t) ==
    \E played \in SampleResults :
        /\ ExhaleGiven(t, played)
        /\ last' = [Fired(t) EXCEPT !.played = Outcome(played)]

\* the 800 ms timeout of lines 423-427, and the render it causes
ToRetention(t) ==
    /\ Due(t, {"toRetention"})
    /\ last' = Fired(t)
    /\ phase' = PHASE.RETENTION
    /\ retentionTime' = 0
    /\ cues' = <<"holdStart">>
    /\ Commit(RunEffects(phase, PHASE.RETENTION, Elapsed(t)))
    /\ UNCHANGED <<loaded, appData, store, history, rounds, breathsPerRound, currentRound,
                   breathCount, isInhale, recoveryCountdown, roundRetentions,
                   sessionStart, showQuitConfirm, pendingStarts>>
    /\ UNCHANGED streak

\* the test of line 442 made on t instead of t + 1
TickDueBeforeIncrement(t) == t % TICK_EVERY = 0

\* the test of line 442, on the retentionTime t before the increment
TickDue(t) == (t + 1) % TICK_EVERY = 0

\* the retention interval, lines 440-445, for retentions of up to max seconds.
\* The updater runs once per tick, as in a production build (the second
\* invocation of updaters under StrictMode is a development-only check).
RetentionTickUpTo(t, max) ==
    /\ Due(t, {"retTick"})
    /\ retentionTime < max
    /\ last' = Fired(t)
    /\ retentionTime' = retentionTime + 1
    /\ cues' = IF TickDue(retentionTime) THEN <<"tick">> ELSE <<>>
    /\ Commit(Elapsed(t))
    /\ UNCHANGED <<loaded, appData, store, history, rounds, breathsPerRound, phase, currentRound,
                   breathCount, isInhale, recoveryCountdown, roundRetentions,
                   sessionStart, showQuitConfirm, pendingStarts>>
    /\ UNCHANGED streak

RetentionTick(t) == RetentionTickUpTo(t, MaxRetention)

\* the retention interval in a hold of more than two minutes
LongRetentionTick(t) == RetentionTickUpTo(t, MaxLongRetention)

CountdownDoneLate(c) == c <= 0

\* the test of line 460: this tick ends the countdown
CountdownDone(c) == c <= 1

ShouldBeepEarly(c) == c <= BEEP_FROM + 1

\* the test of line 466
ShouldBeep(c) == c <= BEEP_FROM

\* the recovery interval, lines 458-469
RecoveryTick(t) ==
    /\ Due(t, {"recTick"})
    /\ last' = Fired(t)
    /\ IF CountdownDone(recoveryCountdown)
       THEN /\ recoveryCountdown' = 0
            /\ cues' = <<"roundComplete">>
            /\ Commit(SetTimeoutUntracked(clearTimers(Elapsed(t)), "toRoundDone",
                                          ROUND_DONE_PAUSE_MS, 0))
       ELSE /\ recoveryCountdown' = recoveryCountdown - 1
            /\ cues' = IF ShouldBeep(recoveryCountdown) THEN <<"countdownBeep">> ELSE <<>>
            /\ Commit(Elapsed(t))
    /\ UNCHANGED <<loaded, appData, store, history, rounds, breathsPerRound, phase, currentRound,
                   breathCount, isInhale, retentionTime, roundRetentions, sessionStart,
                   showQuitConfirm, pendingStarts>>
    /\ UNCHANGED streak

\* the 300 ms timeout of line 463, and the render it causes
ToRoundDone(t) ==
    /\ Due(t, {"toRoundDone"})
    /\ last' = Fired(t)
    /\ phase' = PHASE.ROUND_DONE
    /\ cues' = <<>>
    /\ Commit(RunEffects(phase, PHASE.ROUND_DONE, Elapsed(t)))
    /\ UNCHANGED <<loaded, appData, store, history, rounds, breathsPerRound, currentRound,
                   breathCount, isInhale, retentionTime, recoveryCountdown,
                   roundRetentions, sessionStart, showQuitConfirm, pendingStarts>>
    /\ UNCHANGED streak

\* a handler that registers timers can run now without a timer firing first
CanRegister ==
    \/ pendingStarts # EmptyBag
    \/ phase \in {PHASE.RETENTION, PHASE.ROUND_DONE}

\* Time passes without a timer expiring.  How long the user waits is observable
\* only in the offsets between the timers registered afterwards and the timers
\* that survive clearTimers, so a partial delay is taken only while an untracked
\* timer is pending, and right before a handler that registers timers (the
\* other handlers do not read the delays, so the wait commutes with them).
Advance(d) ==
    /\ Untracked(TimerState) # {}
    /\ CanRegister
    /\ d > 0
    /\ d % Quantum = 0
    /\ d < MinRem(timers)
    /\ LET Age == [u \in Pending(timers) |-> [u EXCEPT !.rem = @ - d]]
       IN  timers' = MapTimers(timers, Age)
    /\ cues' = <<>>
    /\ last' = Step("advance")
    /\ UNCHANGED <<loaded, appData, store, history, rounds, breathsPerRound, phase, currentRound,
                   breathCount, isInhale, retentionTime, recoveryCountdown,
                   roundRetentions, sessionStart, showQuitConfirm, closures,
                   pendingStarts>>
    /\ UNCHANGED streak

-----------------------------------------------------------------------------
(* User actions during a session *)

\* endRetention keeping only the latest retention
endRetentionReplacing ==
    /\ loaded
    /\ phase = PHASE.RETENTION
    /\ Room(clearTimers(TimerState), 1)
    /\ roundRetentions' = <<retentionTime>>
    /\ phase' = PHASE.RECOVERY
    /\ recoveryCountdown' = RECOVERY_SECONDS
    /\ cues' = <<"recoveryIn">>
    /\ Commit(RunEffects(phase, PHASE.RECOVERY, clearTimers(TimerState)))
    /\ last' = Step("endRetention")
    /\ UNCHANGED <<loaded, appData, store, history, rounds, breathsPerRound, currentRound,
                   breathCount, isInhale, retentionTime, sessionStart, showQuitConfirm,
                   pendingStarts>>
    /\ UNCHANGED streak

\* endRetention, lines 487-493 (the button of line 700), the render, the cleanup of
\* the retention effect and the body of the recovery effect (lines 455-457)
endRetention ==
    /\ loaded
    /\ phase = PHASE.RETENTION
    /\ Room(clearTimers(TimerState), 1)
    /\ roundRetentions' = Append(roundRetentions, retentionTime)
    /\ phase' = PHASE.RECOVERY
    /\ recoveryCountdown' = RECOVERY_SECONDS
    /\ cues' = <<"recoveryIn">>
    /\ Commit(RunEffects(phase, PHASE.RECOVERY, clearTimers(TimerState)))
    /\ last' = Step("endRetention")
    /\ UNCHANGED <<loaded, appData, store, history, rounds, breathsPerRound, currentRound,
                   breathCount, isInhale, retentionTime, sessionStart, showQuitConfirm,
                   pendingStarts>>
    /\ UNCHANGED streak

SessionRecordMissingLast ==
    [rounds |-> rounds, breathsPerRound |-> breathsPerRound,
     retentions |-> SubSeq(roundRetentions, 1, Len(roundRetentions) - 1)]

\* the record built at lines 500-507 (date, duration and timestamp left out)
SessionRecord ==
    [rounds |-> rounds, breathsPerRound |-> breathsPerRound, retentions |-> roundRetentions]

saveDataOnlyLast(newData) ==
    store' \in {Stored(<<newData[Len(newData)]>>), store}

saveDataClearsFirst(newData) == store' \in {Stored(newData), NoData}

\* saveData, lines 256-260: setItem stores the blob, or throws and is swallowed
saveData(newData) == store' \in {Stored(newData), store}

IsLastRoundLate == currentRound > rounds

\* the completion test made one round early
IsLastRoundEarly == currentRound + 1 >= rounds

\* the completion test of line 498
IsLastRound == currentRound >= rounds

\* nextRound, lines 496-517, and the render it causes; op names the caller
nextRoundCalled(op) ==
    /\ loaded
    /\ last' = Step(op)
    /\ IF IsLastRound
       THEN /\ Len(appData) - Len(history) < MaxSessions
            /\ appData' = Append(appData, SessionRecord)
            /\ saveData(appData')
            /\ cues' = <<"sessionComplete">>
            /\ phase' = PHASE.COMPLETE
            /\ Commit(RunEffects(phase, PHASE.COMPLETE, TimerState))
            /\ UNCHANGED <<currentRound, breathCount, isInhale>>
       ELSE /\ CanStartBreathing(TimerState)
            /\ currentRound' = currentRound + 1
            /\ phase' = PHASE.BREATHING
            /\ breathCount' = 0
            /\ isInhale' = TRUE
            /\ cues' = <<>>
            /\ Commit(RunEffects(phase, PHASE.BREATHING,
                                 startBreathingPhaseTimers(TimerState, breathsPerRound)))
            /\ UNCHANGED <<appData, store>>
    /\ UNCHANGED <<loaded, history, rounds, breathsPerRound, retentionTime,
                   recoveryCountdown, roundRetentions, sessionStart, showQuitConfirm,
                   pendingStarts>>
    /\ UNCHANGED streak

\* nextRound by the button of line 766, rendered in RoundDone only (line 743)
nextRound ==
    /\ phase = PHASE.ROUND_DONE
    /\ nextRoundCalled("nextRound")

\* nextRound called while the phase is Recovery.  No button of the component
\* does this: it is a direct call of the handler, which has no phase test.
nextRoundInRecovery ==
    /\ phase = PHASE.RECOVERY
    /\ nextRoundCalled("nextRoundInRecovery")

\* endRetention called while the phase is Recovery (a direct call as well):
\* the handler returns at line 488
endRetentionInRecovery ==
    /\ loaded
    /\ phase = PHASE.RECOVERY
    /\ cues' = <<>>
    /\ last' = Step("endRetentionInRecovery")
    /\ UNCHANGED <<loaded, appData, store, history, rounds, breathsPerRound, phase,
                   currentRound, breathCount, isInhale, retentionTime,
                   recoveryCountdown, roundRetentions, sessionStart,
                   showQuitConfirm, timers, closures, pendingStarts, streak>>

\* the cancel button, lines 837-841
openQuitConfirm ==
    /\ loaded
    /\ isActiveSession
    /\ showQuitConfirm' = TRUE
    /\ cues' = <<>>
    /\ last' = Step("openQuitConfirm")
    /\ UNCHANGED <<loaded, appData, store, history, rounds, breathsPerRound, phase, currentRound,
                   breathCount, isInhale, retentionTime, recoveryCountdown,
                   roundRetentions, sessionStart, timers,
                   closures, pendingStarts>>
    /\ UNCHANGED streak

\* "Keep going", lines 888-890
keepGoing ==
    /\ loaded
    /\ showQuitConfirm
    /\ showQuitConfirm' = FALSE
    /\ cues' = <<>>
    /\ last' = Step("keepGoing")
    /\ UNCHANGED <<loaded, appData, store, history, rounds, breathsPerRound, phase, currentRound,
                   breathCount, isInhale, retentionTime, recoveryCountdown,
                   roundRetentions, sessionStart, timers,
                   closures, pendingStarts>>
    /\ UNCHANGED streak

\* the timers that outlive a reset were registered before it
MarkReset(T) ==
    LET Mark == [t \in Pending(T.tm) |-> [t EXCEPT !.q = TRUE]]
    IN  [T EXCEPT !.tm = MapTimers(T.tm, Mark)]

resetToSetupTogglingConfirm ==
    /\ Commit(MarkReset(RunEffects(phase, PHASE.SETUP, clearTimers(TimerState))))
    /\ showQuitConfirm' = ~showQuitConfirm
    /\ phase' = PHASE.SETUP
    /\ currentRound' = 0
    /\ breathCount' = 0
    /\ retentionTime' = 0
    /\ roundRetentions' = <<>>
    /\ cues' = <<>>
    /\ UNCHANGED <<loaded, appData, store, history, rounds, breathsPerRound, isInhale,
                   recoveryCountdown, sessionStart, pendingStarts>>
    /\ UNCHANGED streak

resetToSetupKeepingRound ==
    /\ Commit(MarkReset(RunEffects(phase, PHASE.SETUP, clearTimers(TimerState))))
    /\ showQuitConfirm' = FALSE
    /\ phase' = PHASE.SETUP
    /\ breathCount' = 0
    /\ retentionTime' = 0
    /\ roundRetentions' = <<>>
    /\ cues' = <<>>
    /\ UNCHANGED <<loaded, appData, store, history, rounds, breathsPerRound, isInhale,
                   recoveryCountdown, sessionStart, pendingStarts, currentRound>>
    /\ UNCHANGED streak

\* resetToSetup, lines 520-528, and the render it causes
resetToSetup ==
    /\ Commit(MarkReset(RunEffects(phase, PHASE.SETUP, clearTimers(TimerState))))
    /\ showQuitConfirm' = FALSE
    /\ phase' = PHASE.SETUP
    /\ currentRound' = 0
    /\ breathCount' = 0
    /\ retentionTime' = 0
    /\ roundRetentions' = <<>>
    /\ cues' = <<>>
    /\ UNCHANGED <<loaded, appData, store, history, rounds, breathsPerRound, isInhale,
                   recoveryCountdown, sessionStart, pendingStarts>>
    /\ UNCHANGED streak

\* "Quit" in the confirmation overlay, lines 879-894
quit ==
    /\ loaded
    /\ showQuitConfirm
    /\ resetToSetup
    /\ last' = Step("quit")

\* "Done" on the completion screen, lines 830-832
done ==
    /\ loaded
    /\ phase = PHASE.COMPLETE
    /\ resetToSetup
    /\ last' = Step("done")

\* resetToSetup called while the phase is Setup already, e.g. a second time in a
\* row.  No button of the component does this (the overlay is closed by the
\* first call and the Done button exists only in Complete): it is a direct call
\* of the handler.
quitAgain ==
    /\ loaded
    /\ phase = PHASE.SETUP
    /\ resetToSetup
    /\ last' = Step("quitAgain")

-----------------------------------------------------------------------------
(* Specifications *)

\* the steppers are driven through a part of the configuration range
Explored ==
    /\ rounds' >= MinRoundsExplored
    /\ rounds' <= MaxRoundsExplored
    /\ breathsPerRound' >= MinBreathsExplored
    /\ breathsPerRound' <= MaxBreathsExplored

TimerFire ==
    \E t \in Pending(timers) :
        \/ BreathCycle(t)
        \/ Exhale(t)
        \/ ToRetention(t)
        \/ RetentionTick(t)
        \/ RecoveryTick(t)
        \/ ToRoundDone(t)

WaitStep == WaitQuanta * Quantum

Elapse == \E k \in 1..(BREATH_CYCLE_MS \div WaitStep) : Advance(k * WaitStep)

\* The session engine under the default configuration: every handler of a
\* session, with quits, restarts and overlapping starts.
Next ==
    \/ Load
    \/ startSession
    \/ \E bpr \in BagToSet(pendingStarts) : StartContinuation(bpr)
    \/ TimerFire
    \/ Elapse
    \/ endRetention
    \/ nextRound
    \/ openQuitConfirm
    \/ keepGoing
    \/ quit
    \/ done

Spec == Init /\ [][Next]_vars

\* one "Begin Session" click at a time
SingleStart == pendingStarts = EmptyBag

\* Configured sessions: the steppers, and sessions that are started once and
\* driven to the end without a quit.
NextConfig ==
    \/ Load
    \/ \E d \in {-1, 1} : SetRounds(d) /\ Explored
    \/ \E d \in {-1, 1} : SetBreathsPerRound(d) /\ Explored
    \/ startSession /\ SingleStart
    \/ \E bpr \in BagToSet(pendingStarts) : StartContinuation(bpr)
    \/ TimerFire
    \/ endRetention
    \/ nextRound
    \/ done

SpecConfig == Init /\ [][NextConfig]_vars

\* The session engine with resetToSetup also called directly in Setup.
NextDirect ==
    \/ Next
    \/ quitAgain

SpecDirect == Init /\ [][NextDirect]_vars

\* Sessions that are not quit, with overlapping starts, in which every timer
\* that is due fires: the browser runs a timer callback once its delay has
\* passed.  The user's clicks and the resolution of unlock() are not forced.
NextLive ==
    \/ Load
    \/ startSession
    \/ \E bpr \in BagToSet(pendingStarts) : StartContinuation(bpr)
    \/ TimerFire
    \/ endRetention
    \/ nextRound
    \/ done

SpecLive == Init /\ [][NextLive]_vars /\ WF_vars(TimerFire)

\* Sessions started once at a time and not quit, with endRetention and
\* nextRound also called directly during Recovery.
NextCalls ==
    \/ Load
    \/ startSession /\ SingleStart
    \/ \E bpr \in BagToSet(pendingStarts) : StartContinuation(bpr)
    \/ TimerFire
    \/ endRetention
    \/ nextRound
    \/ done
    \/ endRetentionInRecovery
    \/ nextRoundInRecovery

SpecCalls == Init /\ [][NextCalls]_vars

\* The session engine with the outcome of every sample playback on record:
\* sessions under the default configuration, started once at a time, with
\* quits.
TimerFirePlayed ==
    \E t \in Pending(timers) :
        \/ BreathCyclePlayed(t)
        \/ ExhalePlayed(t)
        \/ ToRetention(t)
        \/ RetentionTick(t)
        \/ RecoveryTick(t)
        \/ ToRoundDone(t)

NextPlayed ==
    \/ Load
    \/ startSession /\ SingleStart
    \/ \E bpr \in BagToSet(pendingStarts) : StartContinuation(bpr)
    \/ TimerFirePlayed
    \/ endRetention
    \/ nextRound
    \/ openQuitConfirm
    \/ keepGoing
    \/ quit
    \/ done

SpecPlayed == Init /\ [][NextPlayed]_vars

\* Long holds: one session under the default configuration, up to the end of
\* a retention of more than two minutes in its first round.
TimerFireHold ==
    \E t \in Pending(timers) :
        \/ BreathCycle(t)
        \/ Exhale(t)
        \/ ToRetention(t)
        \/ LongRetentionTick(t)

NextHold ==
    \/ Load
    \/ startSession /\ SingleStart
    \/ \E bpr \in BagToSet(pendingStarts) : StartContinuation(bpr)
    \/ TimerFireHold
    \/ endRetention

SpecHold == Init /\ [][NextHold]_vars

\* The setup screen alone: the steppers over the whole configuration range.
NextSetup ==
    \/ Load
    \/ \E d \in {-1, 1} : SetRounds(d)
    \/ \E d \in {-1, 1} : SetBreathsPerRound(d)

SpecSetup == Init /\ [][NextSetup]_vars

\* The statistics: the stored sessions are loaded and the streak is computed
\* from them.
InitStreak ==
    /\ store \in {NoData} \cup {Stored(s) : s \in DatedSessions}
    /\ InitState

NextStreak ==
    \/ Load
    \/ RenderStreak

SpecStreak == InitStreak /\ [][NextStreak]_vars

-----------------------------------------------------------------------------
(* Properties *)

\* the step just taken ran the callback of a timer of one of these kinds
FiredOf(kinds) == last'.op = "fire" /\ last'.kind \in kinds

BreathKinds == {"lead", "cycle", "exhale"}

RunFields == <<currentRound, breathCount, retentionTime, recoveryCountdown, roundRetentions>>

Completes == phase # PHASE.COMPLETE /\ phase' = PHASE.COMPLETE

\* C1: a session started from Setup and driven to Complete without a quit, under
\* any configuration, ends with exactly `rounds` entries in roundRetentions, and
\* its completion appends exactly one SessionRecord (holding those retentions)
\* to AppData.sessions; no other step of the session changes AppData.sessions,
\* and one retention is recorded per round on the way.
C1_FullSession ==
    /\ [](/\ phase \in {PHASE.BREATHING, PHASE.RETENTION}
               => Len(roundRetentions) = currentRound - 1
          /\ phase \in {PHASE.RECOVERY, PHASE.ROUND_DONE, PHASE.COMPLETE}
               => Len(roundRetentions) = currentRound)
    /\ [][/\ Completes =>
               /\ Len(roundRetentions') = rounds'
               /\ appData' = Append(appData, [rounds |-> rounds',
                                              breathsPerRound |-> breathsPerRound',
                                              retentions |-> roundRetentions'])
          /\ (loaded /\ appData' # appData) => Completes]_vars

\* a two-round session (the rounds stepper was used) has completed
C1_Witness ==
    /\ phase = PHASE.COMPLETE
    /\ rounds = 2
    /\ Len(roundRetentions) = 2
    /\ Len(appData) = Len(history) + 1

\* C2: once the engine is back in Setup and until the next startSession, the
\* phase stays Setup, no SessionRun field changes and no cue fires, whatever
\* timer callback was registered before the quit.
C2_QuietAfterReset ==
    [][(phase = PHASE.SETUP /\ pendingStarts = EmptyBag /\ pendingStarts' = EmptyBag)
         => (phase' = PHASE.SETUP /\ RunFields' = RunFields /\ cues' = <<>>)]_vars

\* C3: a breath-cycle callback (lead-in, periodic cycle, exhale delay) registered
\* before a quit neither changes breathCount nor triggers a cue when it fires,
\* also when a new session was started in between.
C3_StaleBreathCallbackIsNoOp ==
    [][(FiredOf(BreathKinds) /\ last'.q)
         => (breathCount' = breathCount /\ cues' = <<>>)]_vars

\* C4: a quit in Breathing, Retention, Recovery or RoundDone leaves the engine in
\* Setup with currentRound = 0 and roundRetentions empty, and leaves
\* AppData.sessions unchanged in memory and in the store.
C4_QuitResets ==
    [][(last'.op = "quit" /\ phase \in ACTIVE_PHASES \cup {PHASE.ROUND_DONE})
         => /\ phase' = PHASE.SETUP
            /\ currentRound' = 0
            /\ roundRetentions' = <<>>
            /\ appData' = appData
            /\ store' = store]_vars

\* a quit out of RoundDone, with a retention recorded and sessions in AppData
C4_Witness ==
    /\ last.op = "quit"
    /\ last.from = PHASE.ROUND_DONE
    /\ phase = PHASE.SETUP
    /\ appData # <<>>

\* a quit out of a running recovery countdown
C4_WitnessRecovery ==
    /\ last.op = "quit"
    /\ last.from = PHASE.RECOVERY

\* C5: Breathing changes to Retention after exactly breathsPerRound completed
\* cycles (not earlier), no further cycle starts once they are completed, and
\* breathCount never exceeds breathsPerRound.
C5_ExactBreathCount ==
    /\ [](breathCount <= breathsPerRound)
    /\ [][/\ (phase' = PHASE.RETENTION /\ phase # PHASE.RETENTION)
               => (phase = PHASE.BREATHING /\ breathCount = breathsPerRound)
          /\ (phase = PHASE.BREATHING /\ breathCount >= breathsPerRound)
               => cues' # <<"inhale">>]_vars

RecoveryTicked == FiredOf({"recTick"})

\* C6 as stated: during Recovery the countdownBeep cue is triggered on the ticks
\* at which the remaining count before decrementing is 4, 3, 2 or 1, and on no
\* other tick.
C6_BeepsAt4321 ==
    [][RecoveryTicked
         => (cues' = <<"countdownBeep">> <=> recoveryCountdown \in 1..BEEP_FROM)]_vars

\* C6 as amended: the countdownBeep cue is triggered by exactly the recovery
\* ticks at which the remaining count before decrementing is 4, 3 or 2 (three
\* beeps in a recovery run to completion) and by no other step; the tick at 1
\* triggers roundComplete instead.
C6_BeepsAt432 ==
    [][/\ cues' = <<"countdownBeep">>
            <=> (RecoveryTicked /\ recoveryCountdown \in 2..BEEP_FROM)
       /\ (RecoveryTicked /\ recoveryCountdown = 1) => cues' = <<"roundComplete">>]_vars

\* the last tick of a recovery countdown has just played roundComplete
C6_Witness ==
    /\ phase = PHASE.RECOVERY
    /\ last.op = "fire"
    /\ last.kind = "recTick"
    /\ recoveryCountdown = 0
    /\ cues = <<"roundComplete">>

EntersRecovery == phase # PHASE.RECOVERY /\ phase' = PHASE.RECOVERY

\* C7: every entry to Recovery sets recoveryCountdown to 15; every one-second
\* tick finds it at least 1 and decreases it by exactly 1 (so it is 0 after
\* exactly 15 ticks); nothing else changes it; it is within 0..15 in every
\* reachable state.
C7_Countdown ==
    /\ [](recoveryCountdown \in 0..RECOVERY_SECONDS)
    /\ [][/\ EntersRecovery => recoveryCountdown' = RECOVERY_SECONDS
          /\ RecoveryTicked
               => /\ phase = PHASE.RECOVERY
                  /\ recoveryCountdown >= 1
                  /\ recoveryCountdown' = recoveryCountdown - 1
          /\ recoveryCountdown' # recoveryCountdown
               => (EntersRecovery \/ RecoveryTicked)]_vars

\* the fifteenth tick of a second-round recovery has brought the countdown to 0
C7_Witness ==
    /\ phase = PHASE.RECOVERY
    /\ currentRound = 2
    /\ last.kind = "recTick"
    /\ recoveryCountdown = 0

\* C8: Retention has no automatic exit: each one-second tick leaves the phase
\* Retention and adds 1 to retentionTime, nothing else changes retentionTime
\* during Retention, and the phase leaves Retention only through endRetention
\* (to Recovery) or quit (to Setup).
C8_RetentionOnlyExitsByUser ==
    [][phase = PHASE.RETENTION
         => /\ FiredOf({"retTick"})
                 => (phase' = PHASE.RETENTION /\ retentionTime' = retentionTime + 1)
            /\ (phase' = PHASE.RETENTION /\ retentionTime' # retentionTime)
                 => FiredOf({"retTick"})
            /\ phase' # PHASE.RETENTION
                 => \/ (last'.op = "endRetention" /\ phase' = PHASE.RECOVERY)
                    \/ (last'.op = "quit" /\ phase' = PHASE.SETUP)]_vars

AllowedPhaseChanges ==
    {<<PHASE.SETUP, PHASE.BREATHING>>, <<PHASE.BREATHING, PHASE.RETENTION>>,
     <<PHASE.RETENTION, PHASE.RECOVERY>>, <<PHASE.RECOVERY, PHASE.ROUND_DONE>>,
     <<PHASE.ROUND_DONE, PHASE.BREATHING>>, <<PHASE.ROUND_DONE, PHASE.COMPLETE>>,
     <<PHASE.COMPLETE, PHASE.SETUP>>}
    \cup {<<p, PHASE.SETUP>> : p \in ACTIVE_PHASES \cup {PHASE.ROUND_DONE}}

\* C9: every change of phase is one of the allowed ones.
C9_PhaseChanges ==
    [][phase' # phase => <<phase, phase'>> \in AllowedPhaseChanges]_vars

\* C10: the run initialisation of startSession (currentRound := 1,
\* roundRetentions cleared, sessionStart set, Breathing entered) takes effect
\* only while the phase is Setup, however many starts were invoked and however
\* long the audio unlock takes.
C10_StartOnlyInSetup ==
    [][last'.op = "startContinuation" => phase = PHASE.SETUP]_vars

CompletingNextRound ==
    last'.op = "nextRound" /\ phase = PHASE.ROUND_DONE /\ currentRound >= rounds

\* C11: nextRound in RoundDone with currentRound >= rounds appends exactly one
\* SessionRecord whose rounds and breathsPerRound are the current configuration
\* and whose retentions are roundRetentions in round order, triggers the
\* sessionComplete cue once and moves the phase to Complete; no other operation
\* creates a SessionRecord.
C11_CompletionRecord ==
    [][/\ CompletingNextRound =>
            /\ appData' = Append(appData, [rounds |-> rounds,
                                           breathsPerRound |-> breathsPerRound,
                                           retentions |-> roundRetentions])
            /\ cues' = <<"sessionComplete">>
            /\ phase' = PHASE.COMPLETE
       /\ (loaded /\ appData' # appData) => CompletingNextRound]_vars

\* a session configured with the steppers (2 rounds of 25 breaths) has just been
\* completed by nextRound
C11_Witness ==
    /\ last.op = "nextRound"
    /\ phase = PHASE.COMPLETE
    /\ cues = <<"sessionComplete">>
    /\ rounds = 2
    /\ breathsPerRound = 25
    /\ Len(appData) = Len(history) + 1
    /\ appData[Len(appData)].retentions = <<1, 0>>

IsPrefix(s, t) == Len(s) <= Len(t) /\ SubSeq(t, 1, Len(s)) = s

\* C12: AppData.sessions is append-only: in every step the previous sequence is
\* a prefix of the next one, and after loading it grows only at a session
\* completion, by one record; the store is written only at a completion, and
\* the blob written is the sessions held before (which extend the blob stored
\* before) followed by the new record.
C12_AppendOnly ==
    [][/\ IsPrefix(appData, appData')
       /\ (loaded /\ appData' # appData)
            => (CompletingNextRound /\ Len(appData') = Len(appData) + 1)
       /\ store' # store
            => /\ CompletingNextRound
               /\ store' = Stored(Append(appData, appData'[Len(appData')]))
               /\ IsPrefix(store.sessions, store'.sessions)]_vars

\* the blob left by an earlier run has been extended by the new record
C12_Witness ==
    /\ phase = PHASE.COMPLETE
    /\ history = <<OldRecord>>
    /\ store = Stored(appData)
    /\ Len(appData) = 2

\* C13: when the save fails at a completion (the store does not hold the new
\* sessions afterwards), the step still completes: the phase becomes Complete,
\* AppData.sessions in memory ends with the new record, and the stored blob is
\* exactly what it was.
C13_SaveFailureIsSilent ==
    [][(CompletingNextRound /\ store' # Stored(appData'))
         => /\ phase' = PHASE.COMPLETE
            /\ appData' = Append(appData, [rounds |-> rounds,
                                           breathsPerRound |-> breathsPerRound,
                                           retentions |-> roundRetentions])
            /\ store' = store]_vars

\* a completion whose save failed: the earlier blob is intact, the new record is
\* in memory only
C13_Witness ==
    /\ last.op = "nextRound"
    /\ phase = PHASE.COMPLETE
    /\ history = <<OldRecord>>
    /\ store = Stored(history)
    /\ Len(appData) = 2

\* everything but the history variable `last` and the cues of the latest step
EngineState ==
    <<loaded, appData, store, history, rounds, breathsPerRound, phase, currentRound,
      breathCount, isInhale, retentionTime, recoveryCountdown, roundRetentions,
      sessionStart, showQuitConfirm, timers, closures, pendingStarts>>

\* C14: quit is idempotent: called while the phase is Setup already (in
\* particular right after a first call), it leaves phase, run fields,
\* configuration, AppData, store and pending timers as they were.
C14_QuitIdempotent ==
    [][last'.op = "quitAgain" => EngineState' = EngineState]_vars

\* a second quit right after a quit that left a timer pending
C14_Witness ==
    /\ last.op = "quitAgain"
    /\ timers # EmptyBag
    /\ sessionStart # NULL

\* the longest run of consecutive days that ends at day m and lies in S
RunEndingAt(S, m) ==
    CHOOSE k \in 1..Cardinality(S) :
        /\ \A j \in 0..(k - 1) : (m - j) \in S
        /\ (m - k) \notin S

\* C15: for every sessions sequence, in any order and with repeated days, the
\* streak is 0 when the most recent session day is neither today nor
\* yesterday (or there is no session), and otherwise it is the length of the
\* longest run of consecutive days ending at the most recent session day.
C15_Streak ==
    last.op = "render" =>
        LET S == DateSet(appData)
            m == CHOOSE d \in S : \A e \in S : e <= d
        IN  streak = IF S = {} \/ m \notin {Today, Today - 1} THEN 0
                     ELSE RunEndingAt(S, m)

\* the streak was computed from sessions out of order, with a repeated day and
\* a gap, whose most recent day is yesterday
C15_Witness ==
    /\ last.op = "render"
    /\ Len(appData) = 4
    /\ appData[1].date = Today - 2
    /\ appData[2].date = Today - 4
    /\ appData[3].date = Today - 1
    /\ appData[4].date = Today - 2
    /\ streak = 2

\* C16: after any sequence of stepper actions from the initial configuration
\* (3, 40), rounds is in 1..10 and breathsPerRound is in {20, 25, ..., 60}; an
\* increment at the upper bound or a decrement at the lower bound leaves the
\* value unchanged.
C16_StepperClamps ==
    /\ [](rounds \in 1..10 /\ breathsPerRound \in {20 + 5 * k : k \in 0..8})
    /\ [][/\ SetRounds(1) /\ rounds = 10 => rounds' = 10
          /\ SetRounds(-1) /\ rounds = 1 => rounds' = 1
          /\ SetBreathsPerRound(1) /\ breathsPerRound = 60 => breathsPerRound' = 60
          /\ SetBreathsPerRound(-1) /\ breathsPerRound = 20 => breathsPerRound' = 20]_vars

\* both steppers were driven to their upper bounds, the "Rounds" stepper last
\* (a plus click at 9 and a plus click at 10 both end here)
C16_Witness ==
    /\ rounds = 10
    /\ breathsPerRound = 60
    /\ last.op = "setRounds"
    /\ last.from = PHASE.SETUP

\* C17: rounds and breathsPerRound change only through the steppers while the
\* phase is Setup (no session handler and no timer callback changes them), and
\* the number of breath cycles run in a round equals the breathsPerRound shown
\* and recorded for the session.
C17_ConfigFrame ==
    [][/\ (rounds' # rounds \/ breathsPerRound' # breathsPerRound)
            => /\ phase = PHASE.SETUP
               /\ last'.op \in {"setRounds", "setBreathsPerRound"}
       /\ (phase = PHASE.BREATHING /\ FiredOf({"toRetention"}))
            => breathCount = breathsPerRound]_vars

\* C18: during Retention the tick cue is triggered on exactly those one-second
\* ticks after which retentionTime is a positive multiple of 60, once per such
\* tick, and on no other tick (nor by any other step).
C18_TickEveryMinute ==
    [][/\ FiredOf({"retTick"})
            => /\ phase = PHASE.RETENTION
               /\ IF retentionTime' > 0 /\ retentionTime' % 60 = 0
                  THEN cues' = <<"tick">>
                  ELSE cues' = <<>>
       /\ (\E i \in 1..Len(cues') : cues'[i] = "tick") => FiredOf({"retTick"})]_vars

\* the second tick cue of a hold, at two minutes
C18_Witness ==
    /\ phase = PHASE.RETENTION
    /\ last.op = "fire"
    /\ last.kind = "retTick"
    /\ retentionTime = 120
    /\ cues = <<"tick">>

\* a breath cycle starts in this step
CycleStarts == FiredOf({"lead", "cycle"}) /\ cues' = <<"inhale">>

\* the time from this step to the next start of a breath cycle, if one is
\* scheduled
NextCycleStartIn(ms) ==
    /\ \E t \in Pending(timers') : t.kind \in {"lead", "cycle"} /\ t.rem = ms
    /\ \A t \in Pending(timers') : t.kind \in {"lead", "cycle"} => t.rem >= ms

\* C19: in a Breathing phase the first breath cycle starts 300 ms after entry,
\* each cycle's exhale occurs 2000 ms after that cycle's start, and every two
\* consecutive cycle starts, the first and the second included, are exactly
\* 4000 ms apart.
C19_CycleTiming ==
    [][/\ (phase # PHASE.BREATHING /\ phase' = PHASE.BREATHING)
            => NextCycleStartIn(300)
       /\ CycleStarts
            => /\ \E t \in Pending(timers') : t.kind = "exhale" /\ t.rem = 2000
               /\ NextCycleStartIn(4000)]_vars

\* the timers a phase schedules
KindsOf(p) ==
    CASE p = PHASE.BREATHING -> {"lead", "cycle", "exhale", "toRetention"}
      [] p = PHASE.RETENTION -> {"retTick"}
      [] p = PHASE.RECOVERY  -> {"recTick", "toRoundDone"}
      [] OTHER               -> {}

\* C20: immediately after quit() and on entry to every phase, no delayed or
\* periodic timer registered by an earlier phase is still pending: every
\* pending timer is one scheduled by the current phase (and not before a
\* reset to Setup).
C20_NoTimersOfEarlierPhases ==
    [][(last'.op = "quit" \/ phase' # phase)
         => \A t \in Pending(timers') : t.kind \in KindsOf(phase') /\ ~t.q]_vars

\* C21: startSession from Setup initialises currentRound = 1, empty
\* roundRetentions and the session start timestamp and enters Breathing without
\* waiting on the unlock of the cue player: the Breathing timers are scheduled
\* by the click, whether or not the unlock has finished.
C21_StartDoesNotWait ==
    [][last'.op = "startSession"
         => /\ phase' = PHASE.BREATHING
            /\ currentRound' = 1
            /\ roundRetentions' = <<>>
            /\ sessionStart' # NULL
            /\ \E t \in Pending(timers') : t.kind = "lead"
            /\ \E t \in Pending(timers') : t.kind = "cycle"]_vars

\* the cancel button is rendered (lines 837-841) or the quit overlay is open
\* (lines 879-894)
QuitOffered == isActiveSession \/ showQuitConfirm

\* C22: the quit escape is available to the user in every reachable state whose
\* phase is Breathing, Retention, Recovery or RoundDone.
C22_QuitAvailable ==
    (loaded /\ phase \in {PHASE.BREATHING, PHASE.RETENTION, PHASE.RECOVERY,
                          PHASE.ROUND_DONE})
        => QuitOffered

C24_EndRetention ==
    [][/\ (last'.op = "endRetention" /\ phase = PHASE.RETENTION)
            => /\ roundRetentions' = Append(roundRetentions, retentionTime)
               /\ phase' = PHASE.RECOVERY
               /\ \A t \in Pending(timers') : t.kind # "retTick"
       /\ phase \in {PHASE.RECOVERY, PHASE.ROUND_DONE}
            => retentionTime' <= retentionTime]_vars

\* a retention of one second was ended by the user
C24_Witness ==
    /\ last.op = "endRetention"
    /\ last.from = PHASE.RETENTION
    /\ phase = PHASE.RECOVERY
    /\ retentionTime = 1
    /\ roundRetentions = <<1>>

\* C25: nextRound in RoundDone with currentRound < rounds increases
\* currentRound by exactly 1, re-enters Breathing with breathCount = 0 and
\* isInhale = true, and leaves roundRetentions and AppData.sessions unchanged.
C25_NextRoundContinues ==
    [][(last'.op = "nextRound" /\ phase = PHASE.ROUND_DONE /\ currentRound < rounds)
         => /\ currentRound' = currentRound + 1
            /\ phase' = PHASE.BREATHING
            /\ breathCount' = 0
            /\ isInhale' = TRUE
            /\ roundRetentions' = roundRetentions
            /\ appData' = appData
            /\ store' = store]_vars

\* the third round was entered from the second, with two retentions recorded
C25_Witness ==
    /\ last.op = "nextRound"
    /\ last.from = PHASE.ROUND_DONE
    /\ phase = PHASE.BREATHING
    /\ currentRound = 3
    /\ breathCount = 0
    /\ Len(roundRetentions) = 2

C27_BreathCues ==
    [][/\ cues' = <<"inhale">>
            => \/ ~isInhale
               \/ /\ breathCount = 0
                  /\ \A t \in Pending(timers) : t.kind # "exhale"
       /\ cues' = <<"exhale">>
            => /\ isInhale
               /\ breathCount' = breathCount + 1
               /\ breathCount' <= breathsPerRound
       /\ cues' = <<"holdStart">>
            => /\ phase = PHASE.BREATHING
               /\ phase' = PHASE.RETENTION
               /\ ~isInhale
               /\ breathCount = breathsPerRound
       /\ (phase # PHASE.RETENTION /\ phase' = PHASE.RETENTION)
            => cues' = <<"holdStart">>]_vars

\* C28: under fair firing of timers and with no quit, every Breathing phase
\* eventually reaches Retention and every Recovery phase eventually reaches
\* RoundDone, from whichever phase and by whichever operation the Breathing
\* phase was entered.
C28_PhasesProgress ==
    /\ (phase = PHASE.BREATHING) ~> (phase = PHASE.RETENTION)
    /\ (phase = PHASE.RECOVERY) ~> (phase = PHASE.ROUND_DONE)

\* C29: each counter is advanced only by its own phase: breathCount is
\* incremented only while the phase is Breathing, retentionTime only while the
\* phase is Retention, and recoveryCountdown is decremented only while the
\* phase is Recovery.
C29_CountersOfTheirPhase ==
    [][/\ breathCount' > breathCount
            => (phase = PHASE.BREATHING /\ phase' = PHASE.BREATHING)
       /\ retentionTime' > retentionTime
            => (phase = PHASE.RETENTION /\ phase' = PHASE.RETENTION)
       /\ recoveryCountdown' < recoveryCountdown
            => (phase = PHASE.RECOVERY /\ phase' = PHASE.RECOVERY)]_vars

\* the recovery countdown ticks after a full breathing phase and a retention
\* of one second: each of the three counters was advanced in its phase
C29_Witness ==
    /\ phase = PHASE.RECOVERY
    /\ last.op = "fire"
    /\ last.kind = "recTick"
    /\ recoveryCountdown = RECOVERY_SECONDS - 1
    /\ retentionTime = 1
    /\ breathCount = breathsPerRound

\* C30: every SessionRecord appended to AppData.sessions, after any sequence
\* of starts, quits, timer fires and user actions, has a retentions sequence
\* whose length equals its rounds field.
C30_RetentionsPerRound ==
    \A i \in (Len(history) + 1)..Len(appData) :
        Len(appData[i].retentions) = appData[i].rounds

\* C31: in every reachable state, phase is Setup implies currentRound = 0, and
\* phase in {Breathing, Retention, Recovery, RoundDone, Complete} implies
\* 1 <= currentRound <= rounds.
C31_RoundWithinSession ==
    /\ phase = PHASE.SETUP => currentRound = 0
    /\ phase # PHASE.SETUP => (1 <= currentRound /\ currentRound <= rounds)

\* C32: in every reachable state the length of roundRetentions is
\* currentRound - 1 while the phase is Breathing or Retention, and is
\* currentRound while the phase is Recovery, RoundDone or Complete: one entry
\* per completed retention of the current session, none carried over from a
\* quit session.
C32_RetentionsFollowRound ==
    /\ phase = PHASE.SETUP => roundRetentions = <<>>
    /\ phase \in {PHASE.BREATHING, PHASE.RETENTION}
         => Len(roundRetentions) = currentRound - 1
    /\ phase \in {PHASE.RECOVERY, PHASE.ROUND_DONE, PHASE.COMPLETE}
         => Len(roundRetentions) = currentRound

====
